---- MODULE Spec2Model ----
(***************************************************************************)
(* Model of the /identify request handler of bitespeed-backend             *)
(* (src/src/routes/identify.ts) over a Contact table.                      *)
(*                                                                         *)
(* Encoding of JavaScript values of type string | null | undefined:        *)
(*   a natural number is a string (0 is the empty string "", k > 0 are     *)
(*   distinct non-empty strings), Null is null, Undefined is undefined.    *)
(* A Contact row is a record; the table is the sequence of rows in         *)
(* insertion order, and contacts[i].id = i (autoincrement key).            *)
(***************************************************************************)
EXTENDS Integers, Sequences, FiniteSets, TLC

\* ------------------------------------------------------------------ bounds
MaxContacts == 3
NumEmails == 2
NumPhones == 2
MaxContactsApart == 4
MaxContactsRetry == 2
MaxContactsFail == 3
MaxContactsOverlap == 2
NumHandlers == 2

\* ------------------------------------------------------------ JS values
EmptyStr == 0
Null == -1
Undefined == -2

Emails == 1..NumEmails
Phones == 1..NumPhones

\* req.body fields: email?: string | null, phoneNumber?: string | null
EmailInputs == Emails \cup {EmptyStr, Null, Undefined}
PhoneInputs == Phones \cup {EmptyStr, Null, Undefined}

\* typeof v === "string"
IsString(v) == v >= 0
\* !v  for v : string | null | undefined
Falsy(v) == v \in {Undefined, Null, EmptyStr}
\* v ?? d
Coalesce(v, d) == IF v \in {Null, Undefined} THEN d ELSE v

\* ------------------------------------------------------------ sequences
Range(s) == {s[i] : i \in 1..Len(s)}

\* arr.map((c) => c.field)
Map(arr, field) == [i \in 1..Len(arr) |-> arr[i][field]]

\* every ordering of the elements of the finite set S
RECURSIVE Orderings(_)
Orderings(S) ==
  IF S = {} THEN {<<>>}
  ELSE UNION {{<<x>> \o s : s \in Orderings(S \ {x})} : x \in S}

\* Array.from(new Set(arr.filter(v => v !== null))): nulls dropped, first
\* occurrence of each value kept, in order
RECURSIVE uniqueNonNull(_)
uniqueNonNull(arr) ==
  IF arr = <<>> THEN <<>>
  ELSE LET init == uniqueNonNull(SubSeq(arr, 1, Len(arr) - 1))
           last == arr[Len(arr)]
       IN IF last = Null \/ last \in Range(init) THEN init ELSE Append(init, last)

\* ------------------------------------------------------------- storage
\* A where-clause is a set of OR-ed conditions [field, values]: the row's
\* field equals one of the values ({f: v} is {f: {in: [v]}}).
FieldOf(c, f) ==
  CASE f = "email" -> c.email
    [] f = "phoneNumber" -> c.phoneNumber
    [] f = "id" -> c.id
    [] f = "linkedId" -> c.linkedId

\* SQL comparison: a NULL column equals nothing
Matches(c, OR) ==
  \E cond \in OR : FieldOf(c, cond.field) # Null /\ FieldOf(c, cond.field) \in cond.values

\* prisma.contact.findMany({where: {OR}}) carries no orderBy: the rows that
\* match, in any order the database chooses
findMany(store, OR) == Orderings({store[i] : i \in {j \in 1..Len(store) : Matches(store[j], OR)}})

\* prisma.contact.create({data}): id is the next key, createdAt the
\* database clock at the insert
create(store, email, phoneNumber, linkPrecedence, linkedId, now) ==
  Append(store, [id |-> Len(store) + 1,
                 email |-> email,
                 phoneNumber |-> phoneNumber,
                 linkPrecedence |-> linkPrecedence,
                 linkedId |-> linkedId,
                 createdAt |-> now])

\* update setting linkedId alone, the row keeping its linkPrecedence
update_KeepsPrecedence(store, id, linkedId) ==
  [store EXCEPT ![id].linkedId = linkedId]

\* prisma.contact.update({where: {id}, data: {linkPrecedence: "secondary", linkedId}})
update(store, id, linkedId) ==
  [store EXCEPT ![id].linkPrecedence = "secondary", ![id].linkedId = linkedId]

\* the database clock: never behind the createdAt of a stored row
Clock(store) ==
  IF store = <<>> THEN 0
  ELSE CHOOSE t \in {store[i].createdAt : i \in 1..Len(store)} :
         \A i \in 1..Len(store) : store[i].createdAt <= t

\* ------------------------------------------------------------- handler
\* buildWhereOrForSingleLookup(email, phoneNumber)
buildWhereOrForSingleLookup(email, phoneNumber) ==
  LET OR == (IF IsString(email) THEN {[field |-> "email", values |-> {email}]} ELSE {})
            \cup (IF IsString(phoneNumber)
                    THEN {[field |-> "phoneNumber", values |-> {phoneNumber}]} ELSE {})
  IN IF OR # {} THEN OR ELSE {[field |-> "id", values |-> {-1}]}

\* InvalidRequest with the empty string taken for a supplied value
InvalidRequest_NullOnly(email, phoneNumber) ==
  email \in {Null, Undefined} /\ phoneNumber \in {Null, Undefined}

\* (!email || email === "") && (!phoneNumber || phoneNumber === "")
InvalidRequest(email, phoneNumber) ==
  (Falsy(email) \/ email = EmptyStr) /\ (Falsy(phoneNumber) \/ phoneNumber = EmptyStr)

\* step 3: the where-clause of the expansion query
whereExpansion(existingContacts, email, phoneNumber) ==
  LET seedsEmails == uniqueNonNull(Map(existingContacts, "email"))
      seedsPhones == uniqueNonNull(Map(existingContacts, "phoneNumber"))
      orForExpansion ==
        (IF Len(seedsEmails) > 0
           THEN {[field |-> "email", values |-> Range(seedsEmails)]} ELSE {})
        \cup (IF Len(seedsPhones) > 0
                THEN {[field |-> "phoneNumber", values |-> Range(seedsPhones)]} ELSE {})
  IN IF orForExpansion # {} THEN orForExpansion
     ELSE buildWhereOrForSingleLookup(Coalesce(email, Undefined), Coalesce(phoneNumber, Undefined))

\* step 4: allLinkedContacts.reduce((oldest, curr) =>
\*           curr.createdAt < oldest.createdAt ? curr : oldest, allLinkedContacts[0])
RECURSIVE reduceOldest(_, _)
reduceOldest(oldest, rest) ==
  IF rest = <<>> THEN oldest
  ELSE reduceOldest(IF Head(rest).createdAt < oldest.createdAt THEN Head(rest) ELSE oldest,
                    Tail(rest))

selectPrimary(allLinkedContacts) == reduceOldest(allLinkedContacts[1], allLinkedContacts)

\* step 5: the rows to update
toDowngrade(allLinkedContacts, primary) ==
  SelectSeq(allLinkedContacts,
            LAMBDA c : c.id # primary.id
                       /\ (c.linkPrecedence # "secondary" \/ c.linkedId # primary.id))

\* step 6
hasSameTuple(allLinkedContacts, email, phoneNumber) ==
  \E c \in Range(allLinkedContacts) :
    Coalesce(email, Null) = c.email /\ Coalesce(phoneNumber, Null) = c.phoneNumber

alreadyHasEmail(allLinkedContacts, email) ==
  IF ~Falsy(email) THEN \E c \in Range(allLinkedContacts) : c.email = email ELSE TRUE

alreadyHasPhone(allLinkedContacts, phoneNumber) ==
  IF ~Falsy(phoneNumber) THEN \E c \in Range(allLinkedContacts) : c.phoneNumber = phoneNumber
  ELSE TRUE

\* introducesNewInfo asking for both sides to be new
introducesNewInfo_BothNew(allLinkedContacts, email, phoneNumber) ==
  /\ ~hasSameTuple(allLinkedContacts, email, phoneNumber)
  /\ ~Falsy(email) /\ ~alreadyHasEmail(allLinkedContacts, email)
  /\ ~Falsy(phoneNumber) /\ ~alreadyHasPhone(allLinkedContacts, phoneNumber)

introducesNewInfo(allLinkedContacts, email, phoneNumber) ==
  /\ ~hasSameTuple(allLinkedContacts, email, phoneNumber)
  /\ \/ ~Falsy(email) /\ ~alreadyHasEmail(allLinkedContacts, email)
     \/ ~Falsy(phoneNumber) /\ ~alreadyHasPhone(allLinkedContacts, phoneNumber)

\* prependIfPresent without the filter that drops the value from the rest
prependIfPresent_NoFilter(arr, val) ==
  IF Falsy(val) THEN arr ELSE <<val>> \o arr

\* step 8
prependIfPresent(arr, val) ==
  IF Falsy(val) THEN arr ELSE <<val>> \o SelectSeq(arr, LAMBDA x : x # val)

\* steps 7-8: the response built from the final snapshot
whereFinal(primary) ==
  {[field |-> "id", values |-> {primary.id}], [field |-> "linkedId", values |-> {primary.id}]}

Response(finalContacts, primary) ==
  LET finalEmails == uniqueNonNull(Map(finalContacts, "email"))
      finalPhones == uniqueNonNull(Map(finalContacts, "phoneNumber"))
      secondaryIds == Map(SelectSeq(finalContacts, LAMBDA c : c.linkPrecedence = "secondary"),
                          "id")
  IN [status |-> 200,
      primaryContatctId |-> primary.id,
      emails |-> prependIfPresent(finalEmails, primary.email),
      phoneNumbers |-> prependIfPresent(finalPhones, primary.phoneNumber),
      secondaryContactIds |-> secondaryIds]

\* CreatedResponse listing the created row among the secondary ids
CreatedResponse_ListsItself(created) ==
  [status |-> 200,
   primaryContatctId |-> created.id,
   emails |-> uniqueNonNull(<<created.email>>),
   phoneNumbers |-> uniqueNonNull(<<created.phoneNumber>>),
   secondaryContactIds |-> <<created.id>>]

\* steps 2 and the defensive branch of step 3: the response for a created primary
CreatedResponse(created) ==
  [status |-> 200,
   primaryContatctId |-> created.id,
   emails |-> uniqueNonNull(<<created.email>>),
   phoneNumbers |-> uniqueNonNull(<<created.phoneNumber>>),
   secondaryContactIds |-> <<>>]

ErrorResponse(status) ==
  [status |-> status, primaryContatctId |-> Null, emails |-> <<>>, phoneNumbers |-> <<>>,
   secondaryContactIds |-> <<>>]

\* ------------------------------------------------- the handler, end to end
\* What one run of the handler leaves behind: the table, the HTTP response and
\* the storage calls it made.
Outcome(store, response, reads, inserts, updates) ==
  [contacts |-> store, resp |-> response,
   trace |-> [reads |-> reads, inserts |-> inserts, updates |-> updates]]

\* step 2 and the defensive branch of step 3: create a primary and answer with it
createPrimary(store, email, phoneNumber, now, reads) ==
  LET after == create(store, Coalesce(email, Null), Coalesce(phoneNumber, Null),
                      "primary", Null, now)
  IN Outcome(after, CreatedResponse(after[Len(after)]), reads, 1, 0)

\* step 5: Promise.all over the updates of toDowngrade, all of them succeeding
RECURSIVE downgradeAll(_, _, _)
downgradeAll(store, rows, primary) ==
  IF rows = <<>> THEN store
  ELSE downgradeAll(update(store, Head(rows).id, primary.id), Tail(rows), primary)

\* steps 4-6 on the rows the expansion query returned: the selected primary and
\* the table after the downgrade pass and the insert of the new secondary
steps4to6(store, allLinkedContacts, email, phoneNumber, now) ==
  LET primary == selectPrimary(allLinkedContacts)
      rows == toDowngrade(allLinkedContacts, primary)
      downgraded == downgradeAll(store, rows, primary)
      insert == introducesNewInfo(allLinkedContacts, email, phoneNumber)
  IN [primary |-> primary,
      contacts |-> IF insert
                     THEN create(downgraded, Coalesce(email, Null), Coalesce(phoneNumber, Null),
                                 "secondary", primary.id, now)
                     ELSE downgraded,
      inserts |-> IF insert THEN 1 ELSE 0,
      updates |-> Len(rows)]

\* steps 7-8: one outcome for every order the snapshot query may return
finish(mid) ==
  {Outcome(mid.contacts, Response(finalContacts, mid.primary), 3, mid.inserts, mid.updates) :
     finalContacts \in findMany(mid.contacts, whereFinal(mid.primary))}

\* steps 3-8 for one expansion where-clause
expand(store, where, email, phoneNumber, now) ==
  LET results == findMany(store, where)
      mids == {steps4to6(store, allLinkedContacts, email, phoneNumber, now) :
                 allLinkedContacts \in {r \in results : Len(r) > 0}}
  IN (IF \E r \in results : Len(r) = 0
        THEN {createPrimary(store, email, phoneNumber, now, 2)} ELSE {})
     \cup UNION {finish(mid) : mid \in mids}

\* router.post("/"): every outcome of the handler run alone on `store`, for
\* every order the queries may return their rows in
handle(store, email, phoneNumber, now) ==
  IF InvalidRequest(email, phoneNumber)
    THEN {Outcome(store, ErrorResponse(400), 0, 0, 0)}
    ELSE LET results == findMany(store, buildWhereOrForSingleLookup(
                                          Coalesce(email, Undefined),
                                          Coalesce(phoneNumber, Undefined)))
             wheres == {whereExpansion(existingContacts, email, phoneNumber) :
                          existingContacts \in {r \in results : Len(r) > 0}}
         IN (IF \E r \in results : Len(r) = 0
               THEN {createPrimary(store, email, phoneNumber, now, 1)} ELSE {})
            \cup UNION {expand(store, where, email, phoneNumber, now) : where \in wheres}

\* ------------------------------------------- the handler, a write failing
\* step 5 with the updates of the rows in `applied` succeeding
RECURSIVE downgradeSome(_, _, _, _)
downgradeSome(store, rows, primary, applied) ==
  IF rows = <<>> THEN store
  ELSE downgradeSome(IF Head(rows).id \in applied
                       THEN update(store, Head(rows).id, primary.id) ELSE store,
                     Tail(rows), primary, applied)

\* catch (err): the response of a request a storage call of which threw
failed(store, reads, updates) == Outcome(store, ErrorResponse(500), reads, 0, updates)

\* steps 4-6 with a write throwing. Promise.all has issued every update before
\* any of them settles: it rejects when one fails, the others still run, so any
\* proper subset of them is applied; or all are applied and the insert of step 6
\* throws.
steps4to6Failing(store, allLinkedContacts, email, phoneNumber) ==
  LET primary == selectPrimary(allLinkedContacts)
      rows == toDowngrade(allLinkedContacts, primary)
      ids == {rows[k].id : k \in 1..Len(rows)}
  IN {failed(downgradeSome(store, rows, primary, applied), 2, Cardinality(applied)) :
        applied \in (SUBSET ids) \ {ids}}
     \cup (IF introducesNewInfo(allLinkedContacts, email, phoneNumber)
             THEN {failed(downgradeAll(store, rows, primary), 2, Len(rows))} ELSE {})

expandFailing(store, where, email, phoneNumber) ==
  LET results == findMany(store, where)
  IN (IF \E r \in results : Len(r) = 0 THEN {failed(store, 2, 0)} ELSE {})
     \cup UNION {steps4to6Failing(store, allLinkedContacts, email, phoneNumber) :
                   allLinkedContacts \in {r \in results : Len(r) > 0}}

\* router.post("/"): every outcome in which a write (create or update) throws
handleFailing(store, email, phoneNumber) ==
  IF InvalidRequest(email, phoneNumber)
    THEN {}
    ELSE LET results == findMany(store, buildWhereOrForSingleLookup(
                                          Coalesce(email, Undefined),
                                          Coalesce(phoneNumber, Undefined)))
             wheres == {whereExpansion(existingContacts, email, phoneNumber) :
                          existingContacts \in {r \in results : Len(r) > 0}}
         IN (IF \E r \in results : Len(r) = 0 THEN {failed(store, 1, 0)} ELSE {})
            \cup UNION {expandFailing(store, where, email, phoneNumber) : where \in wheres}

\* ---------------------------------------------------------------- state
VARIABLES
  contacts,   \* the Contact table
  req,        \* the body of the request being answered
  resp,       \* the response to it (status 0: no request is being answered)
  trace,      \* the storage calls the handler made for it
  handlers    \* the handler invocations in flight, when requests overlap

vars == <<contacts, req, resp, trace, handlers>>

\* an invocation of the handler between two of its awaits: where it stands and
\* the locals it still reads
Handlers == 1..NumHandlers
Idle ==
  [pc |-> "idle", email |-> Undefined, phoneNumber |-> Undefined, where |-> {},
   primary |-> Null, pending |-> {}, insert |-> FALSE, resp |-> ErrorResponse(0)]

NoRequest == [email |-> Undefined, phoneNumber |-> Undefined]
NoResponse == ErrorResponse(0)
NoTrace == [reads |-> 0, inserts |-> 0, updates |-> 0]

Init ==
  /\ contacts = <<>>
  /\ req = NoRequest
  /\ resp = NoResponse
  /\ trace = NoTrace
  /\ handlers = [h \in Handlers |-> Idle]

\* the handler run on the request {email, phoneNumber} with no other request
\* in between; `tick` says whether the database clock has advanced since the
\* last insert (two inserts may fall into one clock reading); the table is
\* kept to at most `max` rows
Handle(email, phoneNumber, tick, max) ==
  \E out \in handle(contacts, email, phoneNumber, Clock(contacts) + (IF tick THEN 1 ELSE 0)) :
    /\ Len(out.contacts) <= max
    /\ contacts' = out.contacts
    /\ req' = [email |-> email, phoneNumber |-> phoneNumber]
    /\ resp' = out.resp
    /\ trace' = out.trace
    /\ UNCHANGED handlers

\* POST /identify arrives and is handled from arrival to response (the first
\* insert sets the origin of the clock readings)
Arrive(max) ==
  /\ resp = NoResponse
  /\ \E email \in EmailInputs, phoneNumber \in PhoneInputs :
       \E tick \in (IF contacts = <<>> THEN {TRUE} ELSE BOOLEAN) :
         Handle(email, phoneNumber, tick, max)

Identify == Arrive(MaxContacts)

\* the response is sent: the request's scope (req, res) ends, the table stays
Deliver ==
  /\ resp # NoResponse
  /\ req' = NoRequest
  /\ resp' = NoResponse
  /\ trace' = NoTrace
  /\ UNCHANGED <<contacts, handlers>>

Next == Identify \/ Deliver

Spec == Init /\ [][Next]_vars

\* The same handler on a larger table, the requests handled back to back (the
\* previous request and its response still at hand), every insert at a later
\* clock reading than the one before and every request field a non-empty
\* string or null.
IdentifyApart ==
  /\ \E email \in Emails \cup {Null}, phoneNumber \in Phones \cup {Null} :
       Handle(email, phoneNumber, TRUE, MaxContactsApart)

NextApart == IdentifyApart

SpecApart == Init /\ [][NextApart]_vars

\* The client sends each request and then, any number of times, the same
\* request again right after its response.
IdentifyFirst == Arrive(MaxContactsRetry)

Retry ==
  /\ resp.status = 200
  /\ \E tick \in BOOLEAN : Handle(req.email, req.phoneNumber, tick, MaxContactsRetry)

NextRetry == IdentifyFirst \/ Retry \/ Deliver

SpecRetry == Init /\ [][NextRetry]_vars

\* The handler with storage writes that may throw: requests one at a time,
\* every insert at a later clock reading than the one before, every request
\* field a non-empty string or null.
IdentifyOk ==
  /\ resp = NoResponse
  /\ \E email \in Emails \cup {Null}, phoneNumber \in Phones \cup {Null} :
       Handle(email, phoneNumber, TRUE, MaxContactsFail)

IdentifyWriteFails ==
  /\ resp = NoResponse
  /\ \E email \in Emails \cup {Null}, phoneNumber \in Phones \cup {Null} :
       \E out \in handleFailing(contacts, email, phoneNumber) :
         /\ contacts' = out.contacts
         /\ req' = [email |-> email, phoneNumber |-> phoneNumber]
         /\ resp' = out.resp
         /\ trace' = out.trace
         /\ UNCHANGED handlers

NextFail == IdentifyOk \/ IdentifyWriteFails \/ Deliver

SpecFail == Init /\ [][NextFail]_vars

\* Overlapping requests. Each await of the handler is one storage call, and the
\* calls of the invocations in flight interleave in any order; what the handler
\* computes between two awaits reads only its own locals. Every insert falls at
\* a later clock reading than the one before, every request field is a
\* non-empty string or null.
Goto(h, rec) == handlers' = [handlers EXCEPT ![h] = rec]

\* the request arrives: validation, then the seed lookup is issued
Receive(h) ==
  /\ handlers[h].pc = "idle"
  /\ \E email \in Emails \cup {Null}, phoneNumber \in Phones \cup {Null} :
       IF InvalidRequest(email, phoneNumber)
         THEN Goto(h, [Idle EXCEPT !.pc = "done", !.email = email,
                                   !.phoneNumber = phoneNumber, !.resp = ErrorResponse(400)])
         ELSE Goto(h, [Idle EXCEPT !.pc = "lookup", !.email = email,
                                   !.phoneNumber = phoneNumber])
  /\ UNCHANGED <<contacts, req, resp, trace>>

\* step 1 runs on the table; steps 2-3 choose the next call
Lookup(h) ==
  LET me == handlers[h]
  IN /\ me.pc = "lookup"
     /\ \E existingContacts \in findMany(contacts, buildWhereOrForSingleLookup(
                                                     Coalesce(me.email, Undefined),
                                                     Coalesce(me.phoneNumber, Undefined))) :
          IF Len(existingContacts) = 0
            THEN Goto(h, [me EXCEPT !.pc = "createPrimary"])
            ELSE Goto(h, [me EXCEPT !.pc = "expand",
                                    !.where = whereExpansion(existingContacts, me.email,
                                                             me.phoneNumber)])
     /\ UNCHANGED <<contacts, req, resp, trace>>

\* the create of step 2 (or of the defensive branch of step 3) and its response
CreatePrimary(h) ==
  LET me == handlers[h]
      out == createPrimary(contacts, me.email, me.phoneNumber, Clock(contacts) + 1, 1)
  IN /\ me.pc = "createPrimary"
     /\ Len(contacts) < MaxContactsOverlap
     /\ contacts' = out.contacts
     /\ Goto(h, [me EXCEPT !.pc = "done", !.resp = out.resp])
     /\ UNCHANGED <<req, resp, trace>>

\* where the handler goes once the rows in `pending` are left to update
AfterDowngrade(pending, insert) ==
  IF pending # {} THEN "downgrade" ELSE IF insert THEN "insert" ELSE "snapshot"

\* the expansion query of step 3 runs on the table; steps 4-6 decide, from the
\* rows it returned, the primary, the rows to update and whether to insert
Expand(h) ==
  LET me == handlers[h]
  IN /\ me.pc = "expand"
     /\ \E allLinkedContacts \in findMany(contacts, me.where) :
          IF Len(allLinkedContacts) = 0
            THEN Goto(h, [me EXCEPT !.pc = "createPrimary"])
            ELSE LET primary == selectPrimary(allLinkedContacts)
                     rows == toDowngrade(allLinkedContacts, primary)
                     pending == {rows[k].id : k \in 1..Len(rows)}
                     insert == introducesNewInfo(allLinkedContacts, me.email, me.phoneNumber)
                 IN Goto(h, [me EXCEPT !.pc = AfterDowngrade(pending, insert),
                                       !.primary = primary,
                                       !.pending = pending,
                                       !.insert = insert])
     /\ UNCHANGED <<contacts, req, resp, trace>>

\* one update of the Promise.all of step 5 runs on the table
Downgrade(h) ==
  LET me == handlers[h]
  IN /\ me.pc = "downgrade"
     /\ \E id \in me.pending :
          /\ contacts' = update(contacts, id, me.primary.id)
          /\ Goto(h, [me EXCEPT !.pending = me.pending \ {id},
                                !.pc = AfterDowngrade(me.pending \ {id}, me.insert)])
     /\ UNCHANGED <<req, resp, trace>>

\* the create of step 6 runs on the table
InsertSecondary(h) ==
  LET me == handlers[h]
  IN /\ me.pc = "insert"
     /\ Len(contacts) < MaxContactsOverlap
     /\ contacts' = create(contacts, Coalesce(me.email, Null), Coalesce(me.phoneNumber, Null),
                           "secondary", me.primary.id, Clock(contacts) + 1)
     /\ Goto(h, [me EXCEPT !.pc = "snapshot"])
     /\ UNCHANGED <<req, resp, trace>>

\* the query of step 7 runs on the table; step 8 answers
Snapshot(h) ==
  LET me == handlers[h]
  IN /\ me.pc = "snapshot"
     /\ \E finalContacts \in findMany(contacts, whereFinal(me.primary)) :
          Goto(h, [me EXCEPT !.pc = "done", !.resp = Response(finalContacts, me.primary)])
     /\ UNCHANGED <<contacts, req, resp, trace>>

\* the response is sent and the invocation ends
Respond(h) ==
  /\ handlers[h].pc = "done"
  /\ Goto(h, Idle)
  /\ UNCHANGED <<contacts, req, resp, trace>>

NextOverlap ==
  \E h \in Handlers :
    \/ Receive(h)
    \/ Lookup(h)
    \/ CreatePrimary(h)
    \/ Expand(h)
    \/ Downgrade(h)
    \/ InsertSecondary(h)
    \/ Snapshot(h)
    \/ Respond(h)

SpecOverlap == Init /\ [][NextOverlap]_vars

\* ------------------------------------------------- vocabulary of the claims
Ids(store) == 1..Len(store)

\* a value that identifies somebody: a non-empty string
Present(v) == ~Falsy(v)

\* rows a and b share an email or a phone
Shares(a, b) ==
  \/ Present(a.email) /\ a.email = b.email
  \/ Present(a.phoneNumber) /\ a.phoneNumber = b.phoneNumber

\* the ids of the rows transitively connected to a row of S by shared values
RECURSIVE Closure(_, _)
Closure(store, S) ==
  LET T == S \cup {j \in Ids(store) : \E i \in S : Shares(store[i], store[j])}
  IN IF T = S THEN S ELSE Closure(store, T)

Component(store, i) == Closure(store, {i})

Primaries(store, S) == {i \in S : store[i].linkPrecedence = "primary"}

\* S is a star: one primary, every other row secondary and linked to it
IsStar(store, S) ==
  \E p \in S :
    /\ store[p].linkPrecedence = "primary"
    /\ \A i \in S \ {p} : store[i].linkPrecedence = "secondary" /\ store[i].linkedId = p

\* a step on which a request is answered
Answered == resp' # NoResponse

\* the ids of the rows connected to a row of S by shared values or by a
\* linkedId reference (in either direction)
RECURSIVE LinkClosure(_, _)
LinkClosure(store, S) ==
  LET T == S \cup {j \in Ids(store) : \E i \in S :
                     \/ Shares(store[i], store[j])
                     \/ store[i].linkedId = j
                     \/ store[j].linkedId = i}
  IN IF T = S THEN S ELSE LinkClosure(store, T)

\* C1: after any sequence of requests handled one at a time, every connected
\* component of "shares an email or a phone" holds exactly one primary, and
\* every other contact of it is secondary with linkedId the primary's id.
C1_OnePrimaryPerComponent ==
  \A i \in Ids(contacts) : IsStar(contacts, Component(contacts, i))

\* C1, in the form that follows from it when rows a request has linked count
\* as connected as well (if every component of shared values is a star, no
\* linkedId leaves its component, and the components below are the same
\* sets): every set of rows connected by shared values or links is a star.
C1_LinkedComponentsAreStars ==
  \A i \in Ids(contacts) : IsStar(contacts, LinkClosure(contacts, {i}))

\* ids of the rows of `store` whose email (phone) is the string v
WithEmail(store, v) == {i \in Ids(store) : IsString(v) /\ store[i].email = v}
WithPhone(store, v) == {i \in Ids(store) : IsString(v) /\ store[i].phoneNumber = v}

\* the request field as a row stores it
Stored(v) == IF v = Undefined THEN Null ELSE v

\* the request answered on this step carries neither an email nor a phone
NothingSupplied(r) == ~Present(r.email) /\ ~Present(r.phoneNumber)

\* the table grew by exactly the row `row` (id and createdAt aside)
Inserted(row) ==
  /\ Len(contacts') = Len(contacts) + 1
  /\ LET new == contacts'[Len(contacts')]
     IN /\ new.id = Len(contacts')
        /\ new.email = row.email
        /\ new.phoneNumber = row.phoneNumber
        /\ new.linkPrecedence = row.linkPrecedence
        /\ new.linkedId = row.linkedId

\* C2: when two components, each a star around its own primary, exist and a
\* request supplies an email of one and a phone of the other, then after the
\* request the primary created earlier is the only primary of the union, the
\* later primary is secondary and linked to it, every contact that was linked
\* to the later primary is linked to the earlier one, and the response names
\* the earlier primary.
C2_Case(a, b) ==
  LET A == LinkClosure(contacts, {a})
      B == LinkClosure(contacts, {b})
  IN /\ Answered
     /\ contacts[a].linkPrecedence = "primary"
     /\ contacts[b].linkPrecedence = "primary"
     /\ contacts[a].createdAt < contacts[b].createdAt
     /\ A \cap B = {}
     /\ IsStar(contacts, A)
     /\ IsStar(contacts, B)
     /\ Present(req'.email)
     /\ Present(req'.phoneNumber)
     /\ \/ WithEmail(contacts, req'.email) \cap A # {}
           /\ WithPhone(contacts, req'.phoneNumber) \cap B # {}
        \/ WithEmail(contacts, req'.email) \cap B # {}
           /\ WithPhone(contacts, req'.phoneNumber) \cap A # {}

C2_Outcome(a, b) ==
  LET union == LinkClosure(contacts, {a, b})
  IN /\ Primaries(contacts', union) = {a}
     /\ contacts'[b].linkPrecedence = "secondary"
     /\ contacts'[b].linkedId = a
     /\ \A i \in union : contacts[i].linkedId = b => contacts'[i].linkedId = a
     /\ resp'.status = 200
     /\ resp'.primaryContatctId = a

\* C2: every request that joins two star components keeps the elder primary as
\* the only primary of the union and answers with its id.
C2_MergeKeepsElder ==
  [][\A a, b \in Ids(contacts) : C2_Case(a, b) => C2_Outcome(a, b)]_vars

\* C5: a request whose email and phone are both absent, null or the empty
\* string is answered 400, makes no storage call and leaves the table as it was.
C5_InvalidRequestRejected ==
  [][(Answered /\ NothingSupplied(req'))
       => (resp'.status = 400 /\ contacts' = contacts /\ trace' = NoTrace)]_vars

C5_Witness ==
  /\ resp.status = 400
  /\ req.email = EmptyStr
  /\ req.phoneNumber = Null
  /\ Len(contacts) > 1

\* C6: a request (with at least one of the two supplied) whose email and phone
\* both occur in no existing contact creates exactly one contact, primary and
\* without linkedId, changes no other contact, and is answered with that
\* contact's id as primary id, the supplied email and phone in the lists and no
\* secondary ids.
C6_Case ==
  /\ Answered
  /\ ~NothingSupplied(req')
  /\ WithEmail(contacts, req'.email) = {}
  /\ WithPhone(contacts, req'.phoneNumber) = {}

C6_Outcome ==
  /\ Inserted([email |-> Stored(req'.email), phoneNumber |-> Stored(req'.phoneNumber),
               linkPrecedence |-> "primary", linkedId |-> Null])
  /\ SubSeq(contacts', 1, Len(contacts)) = contacts
  /\ resp'.status = 200
  /\ resp'.primaryContatctId = Len(contacts')
  /\ IsString(req'.email) => req'.email \in Range(resp'.emails)
  /\ IsString(req'.phoneNumber) => req'.phoneNumber \in Range(resp'.phoneNumbers)
  /\ resp'.secondaryContactIds = <<>>

\* C6: every request whose email and phone are on no contact creates one
\* primary and is answered with it alone.
C6_FreshRequestCreatesPrimary == [][C6_Case => C6_Outcome]_vars

C6_Witness ==
  /\ Len(contacts) = 3
  /\ contacts[3].linkPrecedence = "primary"
  /\ resp.status = 200
  /\ resp.primaryContatctId = 3
  /\ Present(req.email)
  /\ Present(req.phoneNumber)

\* C7: a request with the phone of an existing primary and an email seen in no
\* contact creates exactly one contact, secondary and linked to that primary;
\* the response lists the primary's email and the new email and, when the
\* primary had no secondaries before, exactly one secondary id.
C7_Case(p) ==
  /\ Answered
  /\ contacts[p].linkPrecedence = "primary"
  /\ Present(req'.phoneNumber)
  /\ contacts[p].phoneNumber = req'.phoneNumber
  /\ Present(req'.email)
  /\ WithEmail(contacts, req'.email) = {}

C7_Outcome(p) ==
  /\ Inserted([email |-> req'.email, phoneNumber |-> req'.phoneNumber,
               linkPrecedence |-> "secondary", linkedId |-> p])
  /\ resp'.status = 200
  /\ req'.email \in Range(resp'.emails)
  /\ IsString(contacts[p].email) => contacts[p].email \in Range(resp'.emails)
  /\ (\A i \in Ids(contacts) : contacts[i].linkedId # p) => Len(resp'.secondaryContactIds) = 1

\* C7: every request with a primary's phone and an unseen email inserts one
\* secondary linked to that primary.
C7_NewEmailOnPrimaryPhone ==
  [][\A p \in Ids(contacts) : C7_Case(p) => C7_Outcome(p)]_vars

\* C8: a request with a phone only, the phone being on some contact, creates no
\* row, and when the request answered just before it was on the same component
\* (its response lists that phone) the two responses carry the same emails and
\* the same phone numbers.
C8_Case ==
  /\ Answered
  /\ ~IsString(req'.email)
  /\ Present(req'.phoneNumber)
  /\ WithPhone(contacts, req'.phoneNumber) # {}

C8_Outcome ==
  /\ resp'.status = 200
  /\ Len(contacts') = Len(contacts)
  /\ (resp.status = 200 /\ req'.phoneNumber \in Range(resp.phoneNumbers))
       => /\ Range(resp'.emails) = Range(resp.emails)
          /\ Range(resp'.phoneNumbers) = Range(resp.phoneNumbers)

\* C8: every phone-only request on a known phone inserts nothing and repeats
\* the emails and phones of the answer just before it on that component.
C8_PhoneOnlyRepeatsView == [][C8_Case => C8_Outcome]_vars

\* C9: when the seed lookup finds contacts, the request inserts a row exactly
\* when its (email, phone) pair is on no row of the component of the seeds and
\* at least one supplied side is on no contact of that component; the row it
\* inserts is secondary and linked to the selected primary.
Seeds(store, r) == WithEmail(store, r.email) \cup WithPhone(store, r.phoneNumber)

C9_Case ==
  /\ Answered
  /\ ~NothingSupplied(req')
  /\ Seeds(contacts, req') # {}

C9_NewInformation ==
  LET component == Closure(contacts, Seeds(contacts, req'))
  IN /\ \A i \in component :
          ~(contacts[i].email = Stored(req'.email)
            /\ contacts[i].phoneNumber = Stored(req'.phoneNumber))
     /\ \/ Present(req'.email) /\ \A i \in component : contacts[i].email # req'.email
        \/ Present(req'.phoneNumber)
           /\ \A i \in component : contacts[i].phoneNumber # req'.phoneNumber

C9_Outcome ==
  /\ resp'.status = 200
  /\ IF C9_NewInformation
       THEN Inserted([email |-> Stored(req'.email), phoneNumber |-> Stored(req'.phoneNumber),
                      linkPrecedence |-> "secondary",
                      linkedId |-> resp'.primaryContatctId])
       ELSE Len(contacts') = Len(contacts)

\* C9: every request with seeds inserts a secondary exactly when it carries
\* new information.
C9_InsertIffNewInformation == [][C9_Case => C9_Outcome]_vars

\* both sides of the answered request are on rows, never on the same row, and
\* no row was inserted for it
C9_Witness ==
  /\ resp.status = 200
  /\ trace.inserts = 0
  /\ Present(req.email)
  /\ Present(req.phoneNumber)
  /\ WithEmail(contacts, req.email) # {}
  /\ WithPhone(contacts, req.phoneNumber) # {}
  /\ WithEmail(contacts, req.email) \cap WithPhone(contacts, req.phoneNumber) = {}

\* C10: a request whose (email, phone) pair is on an existing row creates no
\* row, and a successful request sent a second time right after its response
\* makes no insert and no update and is answered with the same primary id,
\* emails, phone numbers and secondary ids.
C10_PairOnRow ==
  \E i \in Ids(contacts) :
    /\ contacts[i].email = Stored(req'.email)
    /\ contacts[i].phoneNumber = Stored(req'.phoneNumber)

C10_SentAgain == resp.status = 200 /\ Answered /\ req' = req

C10_SameAnswer ==
  /\ contacts' = contacts
  /\ trace'.inserts = 0
  /\ trace'.updates = 0
  /\ resp'.status = 200
  /\ resp'.primaryContatctId = resp.primaryContatctId
  /\ Range(resp'.emails) = Range(resp.emails)
  /\ Range(resp'.phoneNumbers) = Range(resp.phoneNumbers)
  /\ Range(resp'.secondaryContactIds) = Range(resp.secondaryContactIds)

\* C10: a request on an existing pair inserts nothing, and a request sent
\* again right after its answer writes nothing and gets the same answer.
C10_Idempotent ==
  [][/\ (Answered /\ ~NothingSupplied(req') /\ C10_PairOnRow) => Len(contacts') = Len(contacts)
     /\ C10_SentAgain => C10_SameAnswer]_vars

\* C4: a request that is answered with a server error because one of its
\* writes (an update of the downgrade pass, the insert of the new secondary)
\* failed leaves none of its writes visible: the table is as it was before it.
C4_FailedRequestLeavesNoWrite ==
  [][(Answered /\ resp'.status = 500) => contacts' = contacts]_vars

\* C3: whatever the interleaving of the storage calls of overlapping requests,
\* once every request has completed no two primaries are in one connected
\* component of "shares an email or a phone".
C3_Quiescent == \A h \in Handlers : handlers[h].pc \in {"idle", "done"}

\* C3: once all overlapping requests have completed, no two primaries share a
\* component.
C3_NoTwoPrimariesWhenQuiescent ==
  C3_Quiescent
    => \A i, j \in Primaries(contacts, Ids(contacts)) :
         j \in Component(contacts, i) => i = j

\* ------------------------------------------------------ responses, links
\* no value occurs twice in the sequence s
NoDup(s) == \A i, j \in 1..Len(s) : s[i] = s[j] => i = j

\* the value v, when present, is the first element of s
FirstWhenPresent(s, v) == Present(v) => (s # <<>> /\ s[1] = v)

\* C11: in every successful response the emails and the phone numbers each hold
\* no value twice, and the email (phone) of the selected primary, when it has
\* one (a non-empty string, "present" as the validation reads it), is the first
\* element of its list.
C11_ListsDedupedPrimaryFirst ==
  resp.status = 200
    => /\ NoDup(resp.emails)
       /\ NoDup(resp.phoneNumbers)
       /\ FirstWhenPresent(resp.emails, contacts[resp.primaryContatctId].email)
       /\ FirstWhenPresent(resp.phoneNumbers, contacts[resp.primaryContatctId].phoneNumber)

\* a response with two emails and two phones, answered for a primary that is
\* not the row the request was found on first
C11_Witness ==
  /\ resp.status = 200
  /\ Len(resp.emails) = 2
  /\ Len(resp.phoneNumbers) = 2
  /\ Len(resp.secondaryContactIds) = 2
  /\ Present(contacts[resp.primaryContatctId].email)
  /\ Present(contacts[resp.primaryContatctId].phoneNumber)

\* the emails, phones of the rows with ids in S
EmailsOf(store, S) == {store[i].email : i \in S} \ {Null}
PhonesOf(store, S) == {store[i].phoneNumber : i \in S} \ {Null}

\* C12: every successful response is the whole view of one component: its
\* emails, its phone numbers and its ids (primary id and secondary ids) are
\* those of all the rows connected, by shared values or links, to a row that
\* carries the request's email or phone, in the table the request leaves.
C12_ResponseIsWholeComponent ==
  [][(Answered /\ resp'.status = 200)
       => LET component == LinkClosure(contacts', Seeds(contacts', req'))
          IN /\ Range(resp'.emails) = EmailsOf(contacts', component)
             /\ Range(resp'.phoneNumbers) = PhonesOf(contacts', component)
             /\ {resp'.primaryContatctId} \cup Range(resp'.secondaryContactIds) = component]_vars

\* C13: after any sequence of requests handled one at a time, the linkedId of
\* every secondary row is the id of a primary row.
C13_LinksPointAtPrimaries ==
  \A i \in Ids(contacts) :
    contacts[i].linkPrecedence = "secondary"
      => /\ contacts[i].linkedId \in Ids(contacts)
         /\ contacts[contacts[i].linkedId].linkPrecedence = "primary"

\* ------------------------------------------- the rows a request works on
\* step 1: the ids of the rows the seed lookup matches
seedIds(store, email, phoneNumber) ==
  {i \in Ids(store) :
     Matches(store[i], buildWhereOrForSingleLookup(Coalesce(email, Undefined),
                                                   Coalesce(phoneNumber, Undefined)))}

\* step 3: the ids of the rows the expansion query matches (the where-clause
\* is built from the sets of the seeds' values, whatever their order)
expansionIds(store, email, phoneNumber) ==
  LET seeds == seedIds(store, email, phoneNumber)
      existingContacts == CHOOSE s \in Orderings({store[i] : i \in seeds}) : TRUE
  IN {i \in Ids(store) : Matches(store[i], whereExpansion(existingContacts, email, phoneNumber))}

\* the row i is created no later than every row of S
Earliest(store, i, S) == \A j \in S : store[i].createdAt <= store[j].createdAt

\* the request answered on this step found seeds and went through steps 3-8
WorkedOnSeeds ==
  /\ Answered
  /\ resp'.status = 200
  /\ seedIds(contacts, req'.email, req'.phoneNumber) # {}

\* C14: after any sequence of requests handled one at a time the primary of a
\* component is its earliest-created contact, and the contact a request
\* selects as primary is the earliest-created contact of its whole component.
C14_PrimaryIsEarliest ==
  [][/\ \A i \in Primaries(contacts', Ids(contacts')) :
          Earliest(contacts', i, Component(contacts', i))
     /\ WorkedOnSeeds
          => Earliest(contacts', resp'.primaryContatctId,
                      Component(contacts', resp'.primaryContatctId))]_vars

\* C16: the rows a request works on after the expansion of step 3 are the whole
\* connected component of its seeds under "shares an email or a phone".
C16_ExpansionIsWholeComponent ==
  [][WorkedOnSeeds
       => expansionIds(contacts, req'.email, req'.phoneNumber)
            = Closure(contacts, seedIds(contacts, req'.email, req'.phoneNumber))]_vars

\* the least id among the rows of S with the smallest createdAt
EldestLeastId(store, S) ==
  CHOOSE i \in S : \A j \in S :
    \/ store[i].createdAt < store[j].createdAt
    \/ store[i].createdAt = store[j].createdAt /\ i <= j

\* C17: when several of the rows found in step 3 share the smallest createdAt,
\* the one selected as primary is the one with the smallest id, whatever the
\* order the rows came back in (stated for requests neither side of which is
\* the empty string).
C17_TieBrokenBySmallestId ==
  [][(WorkedOnSeeds /\ req'.email # EmptyStr /\ req'.phoneNumber # EmptyStr)
       => resp'.primaryContatctId
            = EldestLeastId(contacts, expansionIds(contacts, req'.email, req'.phoneNumber))]_vars

\* C15: no request removes a contact, and all a request changes of an existing
\* contact is its linkPrecedence, set to secondary, and its linkedId, set to
\* the id of the selected primary: id, email, phone and createdAt stay, and no
\* secondary becomes primary again.
C15_OnlyDowngradesExistingRows ==
  [][/\ Len(contacts') >= Len(contacts)
     /\ \A i \in Ids(contacts) :
          /\ contacts'[i].id = contacts[i].id
          /\ contacts'[i].email = contacts[i].email
          /\ contacts'[i].phoneNumber = contacts[i].phoneNumber
          /\ contacts'[i].createdAt = contacts[i].createdAt
          /\ \/ contacts'[i] = contacts[i]
             \/ /\ contacts'[i].linkPrecedence = "secondary"
                /\ contacts'[i].linkedId = resp'.primaryContatctId
          /\ contacts[i].linkPrecedence = "secondary"
               => contacts'[i].linkPrecedence = "secondary"]_vars

\* a request that was answered after it updated a row of a table of three
C15_Witness ==
  /\ resp.status = 200
  /\ trace.updates >= 1
  /\ Len(contacts) = 3
  /\ \E i \in Ids(contacts) : contacts[i].linkedId = resp.primaryContatctId

\* the ids of the rows that carry a side of the request that is present
PresentSeeds(store, r) ==
  {i \in Ids(store) : \/ Present(r.email) /\ store[i].email = r.email
                      \/ Present(r.phoneNumber) /\ store[i].phoneNumber = r.phoneNumber}

\* C18: a side of the request that is absent, null or the empty string is not
\* used to match: the seed lookup selects only rows that carry a present side
\* of the request, and a request none of whose present sides is on a row
\* creates a primary of its own.
C18_AbsentSideNeverMatches ==
  [][(Answered /\ resp'.status = 200)
       => /\ seedIds(contacts, req'.email, req'.phoneNumber) \subseteq PresentSeeds(contacts, req')
          /\ PresentSeeds(contacts, req') = {}
               => /\ Len(contacts') = Len(contacts) + 1
                  /\ contacts'[Len(contacts')].linkPrecedence = "primary"]_vars

\* C19: in every successful response the row of the primary id is primary in
\* the table the response was built from, and the primary id is not among the
\* secondary ids.
C19_ReturnedPrimaryIsPrimary ==
  resp.status = 200
    => /\ contacts[resp.primaryContatctId].linkPrecedence = "primary"
       /\ resp.primaryContatctId \notin Range(resp.secondaryContactIds)

\* C20: in every state, whatever the sequence or interleaving of the requests,
\* no two contacts hold the same (email, phone) pair.
C20_NoTwoRowsWithOnePair ==
  \A i, j \in Ids(contacts) :
    (contacts[i].email = contacts[j].email /\ contacts[i].phoneNumber = contacts[j].phoneNumber)
      => i = j

====
